---- MODULE Spec2Model ----
(***************************************************************************)
(* A model of pyais/messages.py: NMEAMessage construction (sentence        *)
(* framing, checksum validation), fragment assembly and the AISMessage     *)
(* envelope.  Bytes are the integers 0..255, byte strings are sequences of *)
(* bytes, bit arrays are sequences of 0/1.  Objects live in `heap`; a      *)
(* reference to an object is its index in `heap`.                          *)
(***************************************************************************)
EXTENDS Integers, Sequences, FiniteSets, TLC

VARIABLES
    input,      \* the bytes handed to the last NMEAMessage(raw) call
    heap,       \* the NMEAMessage objects the caller holds, by reference
    op,         \* the last call: "none", "init", "assemble", "decode"
    args,       \* the `messages` argument of the last assemble call (references)
    outcome,    \* how the last call ended: "none", "frame", "ignored" or an exception
    ret,        \* the reference the last call returned (0: none)
    msg_type    \* AISMessage.msg_type of the last decode (None: not set)

vars == <<input, heap, op, args, outcome, ret, msg_type>>

-----------------------------------------------------------------------------
(* Bounds of the model *)

\* longest six-bit payload of a generated sentence
MaxPayload == 2
\* most objects the caller holds, and longest `messages` list it passes
MaxFrames == 2

-----------------------------------------------------------------------------
(* Bytes *)

Byte == 0..255

\* 0x21, the encapsulation sentinel '!'
Bang == 33
\* b","
Comma == 44
\* b'*'
Star == 42

\* ASCII codes of the other characters the generated sentences use
Ord == [dollar |-> 36, d0 |-> 48, d1 |-> 49, d2 |-> 50, d3 |-> 51,
        A |-> 65, D |-> 68, H |-> 72, I |-> 73, M |-> 77, T |-> 84,
        V |-> 86, h |-> 104]

\* Python's None: an int that is no count/index/checksum/type id, and a byte
\* string that is no byte string (its only element is no byte)
None == -1
NoneBytes == <<None>>

RECURSIVE Xor(_, _)
\* operator.xor on non-negative ints
Xor(a, b) ==
    IF a = 0 THEN b
    ELSE IF b = 0 THEN a
    ELSE ((a + b) % 2) + 2 * Xor(a \div 2, b \div 2)

\* s[i:] of Python, i >= 0 (0-based start)
From(s, i) == IF i >= Len(s) THEN <<>> ELSE SubSeq(s, i + 1, Len(s))
\* s[i:j] of Python, 0 <= i <= j
Slice(s, i, j) ==
    LET e == IF j > Len(s) THEN Len(s) ELSE j
    IN  IF i >= e THEN <<>> ELSE SubSeq(s, i + 1, e)

\* index of the first sep in s at or after position i (1-based), 0 if none
RECURSIVE Find(_, _, _)
Find(s, sep, i) ==
    IF i > Len(s) THEN 0
    ELSE IF s[i] = sep THEN i
    ELSE Find(s, sep, i + 1)

\* bytes.split(sep): the fields between the separators, at least one field
RECURSIVE Split(_, _)
Split(s, sep) ==
    LET p == Find(s, sep, 1)
    IN  IF p = 0 THEN <<s>>
        ELSE <<SubSeq(s, 1, p - 1)>> \o Split(From(s, p), sep)

\* bytes.split(sep, 1)[0]: the bytes before the first sep, all of s if none
SplitFirst(s, sep) ==
    LET p == Find(s, sep, 1)
    IN  IF p = 0 THEN s ELSE SubSeq(s, 1, p - 1)

-----------------------------------------------------------------------------
(* int(bytes, base) *)

\* the digit value of byte b in int(..., base), None if b is no digit of the base
DigitVal(b, base) ==
    LET v == IF b >= 48 /\ b <= 57 THEN b - 48
             ELSE IF b >= 65 /\ b <= 90 THEN b - 55
             ELSE IF b >= 97 /\ b <= 122 THEN b - 87
             ELSE None
    IN  IF v # None /\ v < base THEN v ELSE None

RECURSIVE DigitsVal(_, _, _)
\* the value of the digit string s in the base, acc the value read so far
DigitsVal(s, base, acc) ==
    IF Len(s) = 0 THEN acc
    ELSE DigitsVal(Tail(s), base, acc * base + DigitVal(Head(s), base))

\* int(s, base) for a byte string of the model's alphabet (no sign, blank,
\* underscore or base prefix occurs in it): its value, or ok = FALSE where
\* Python raises ValueError (empty string, or a byte that is no digit)
PyInt(s, base) ==
    IF Len(s) = 0 \/ \E i \in 1..Len(s) : DigitVal(s[i], base) = None
    THEN [ok |-> FALSE, val |-> None]
    ELSE [ok |-> TRUE, val |-> DigitsVal(s, base, 0)]

-----------------------------------------------------------------------------
(* pyais.util: the six-bit unarmorer and the bit-range reader *)

\* the 6 bits of v, 0 <= v < 64, most significant first
Bits6(v) ==
    [k \in 1..6 |-> (v \div (2 ^ (6 - k))) % 2]

\* one payload byte: v = b - 0x30; if v > 40 then v -= 8; the low 6 bits of v
Unarmor1(b) ==
    LET v == b - 48
        w == IF v > 40 THEN v - 8 ELSE v
    IN  Bits6(w % 64)

RECURSIVE decode_into_bit_array(_)
decode_into_bit_array(data) ==
    IF Len(data) = 0 THEN <<>>
    ELSE Unarmor1(Head(data)) \o decode_into_bit_array(Tail(data))

RECURSIVE BitsVal(_, _)
\* big-endian value of a bit string, acc the value read so far
BitsVal(bits, acc) ==
    IF Len(bits) = 0 THEN acc
    ELSE BitsVal(Tail(bits), 2 * acc + Head(bits))

\* getUint(bits, start, length): RangeError when start + length is beyond the stream
get_int(bits, start, length) ==
    IF start + length > Len(bits)
    THEN [ok |-> FALSE, val |-> None]
    ELSE [ok |-> TRUE, val |-> BitsVal(SubSeq(bits, start + 1, start + length), 0)]

-----------------------------------------------------------------------------
(* class NMEAMessage *)

\* [setattr(self, name, None) for name in self.__slots__]
AllNone ==
    [ais_id |-> None, raw |-> NoneBytes, talker |-> NoneBytes,
     msg_type |-> NoneBytes, count |-> None, index |-> None,
     seq_id |-> NoneBytes, channel |-> NoneBytes, data |-> NoneBytes,
     checksum |-> None, bit_array |-> NoneBytes]

RECURSIVE Reduce(_, _)
\* reduce(xor, msg) continued: acc holds the fold of the bytes read so far
Reduce(msg, acc) ==
    IF Len(msg) = 0 THEN acc
    ELSE Reduce(Tail(msg), Xor(acc, Head(msg)))

\* compute_checksum that splits at the last '*' (rsplit) instead of the first
compute_checksum_ToLastStar(msg) ==
    LET body == From(msg, 1)
        stars == {i \in 1..Len(body) : body[i] = Star}
        m == IF stars = {} THEN body
             ELSE SubSeq(body, 1, (CHOOSE i \in stars : \A j \in stars : j <= i) - 1)
    IN  IF Len(m) = 0
        THEN [ok |-> FALSE, val |-> None]
        ELSE [ok |-> TRUE, val |-> Reduce(Tail(m), Head(m))]

\* NMEAMessage.compute_checksum(msg): msg[1:].split(b'*', 1)[0] folded with
\* xor; reduce() of an empty sequence with no initial value is a TypeError
compute_checksum(msg) ==
    LET m == SplitFirst(From(msg, 1), Star)
    IN  IF Len(m) = 0
        THEN [ok |-> FALSE, val |-> None]
        ELSE [ok |-> TRUE, val |-> Reduce(Tail(m), Head(m))]

\* is_valid that compares nothing
is_valid_Unchecked(self) == compute_checksum(self.raw).ok

\* NMEAMessage.is_valid (FALSE stands for the TypeError of compute_checksum too;
\* __init__ below tells the two apart)
is_valid(self) ==
    LET c == compute_checksum(self.raw)
    IN  c.ok /\ self.checksum = c.val

\* Python truth value of a bytes-or-None attribute
Truthy(b) == b # NoneBytes /\ Len(b) > 0

\* is_single that leaves out the comparison with 1
is_single_AnyCount(self) ==
    ~Truthy(self.seq_id) /\ self.index = self.count

\* NMEAMessage.is_single
is_single(self) ==
    ~Truthy(self.seq_id) /\ self.index = self.count /\ self.count = 1

\* NMEAMessage.is_multi
is_multi(self) == ~is_single(self)

Raise(e) == [exc |-> e, self |-> AllNone]
Return(self) == [exc |-> "none", self |-> self]

\* a field count check that lets longer sentences through
FieldCountOk_AtLeast(values) == Len(values) >= 7

\* if len(values) != 7: raise ValueError
FieldCountOk(values) == Len(values) = 7

\* checksum[3:]: one byte too far
ChecksumDigits_OneLate(checksum) == From(checksum, 3)

\* checksum[2:], the bytes int(.., 16) reads as the declared checksum
ChecksumDigits(checksum) == From(checksum, 2)

\* NMEAMessage.__init__(raw), for ASCII raw: the exception it
\* raises ("none": it returns) and the object it initialised
NMEAMessage(raw) ==
    LET values == Split(raw, Comma)
        self0 == [AllNone EXCEPT !.raw = raw]
    IN  IF Len(values[1]) = 0 THEN Raise("IndexError")
        ELSE IF values[1][1] # Bang THEN Return(self0)
        ELSE IF ~FieldCountOk(values) THEN Raise("ValueError: 7 entries")
        ELSE
        LET head == values[1]
            count == PyInt(values[2], 10)
            index == PyInt(values[3], 10)
            checksum == PyInt(ChecksumDigits(values[7]), 16)
            self1 == [self0 EXCEPT !.talker = Slice(head, 1, 3),
                                   !.msg_type = From(head, 3),
                                   !.count = count.val,
                                   !.index = index.val,
                                   !.seq_id = values[4],
                                   !.channel = values[5],
                                   !.data = values[6],
                                   !.checksum = checksum.val]
            bit_array == decode_into_bit_array(self1.data)
            ais_id == get_int(bit_array, 0, 6)
        IN  IF ~count.ok \/ ~index.ok \/ ~checksum.ok THEN Raise("ValueError: int")
            ELSE IF ~compute_checksum(raw).ok THEN Raise("TypeError")
            ELSE IF ~is_valid(self1) THEN Raise("ValueError: checksum")
            ELSE IF ~ais_id.ok THEN Raise("RangeError")
            ELSE Return([self1 EXCEPT !.bit_array = bit_array,
                                      !.ais_id = ais_id.val])

-----------------------------------------------------------------------------
(* The sentences the caller feeds in *)

RECURSIVE Join(_)
\* the fields joined by commas
Join(fields) ==
    IF Len(fields) = 1 THEN fields[1]
    ELSE fields[1] \o <<Comma>> \o Join(Tail(fields))

HexDigit(v) == IF v < 10 THEN 48 + v ELSE 55 + v
\* v in 0..255 as two upper-case hex digits
Hex2(v) == <<HexDigit(v \div 16), HexDigit(v % 16)>>

AIVDM == <<Ord.A, Ord.I, Ord.V, Ord.D, Ord.M>>
PayloadAlphabet == {Ord.H, Ord.T, Ord.h}
Payloads == UNION {[1..n -> PayloadAlphabet] : n \in 0..MaxPayload}

\* the trailing token up to its hex digits: <pad><sep>, sep the '*' of a
\* well-formed sentence or a digit in its place
TailShapes ==
    {<<Ord.d0, Star>>, <<Star>>, <<Ord.d1, Ord.d0, Star>>, <<Ord.d0, Ord.d0>>}

\* the checksums that fit a sentence prefix: the XOR of its bytes after the first
\* one ('*' left out) when it holds a '*'; when it holds none, every value equal
\* to the XOR of all the bytes after the first one, its own two hex digits included
FittingChecksums(prefix) ==
    LET body == SelectSeq(Tail(prefix), LAMBDA b : b # Star)
    IN  UNION {IF Find(prefix, Star, 1) # 0 THEN {n}
               ELSE {v \in Byte : v = Reduce(Hex2(v), n)}
               : n \in {Reduce(body, 0)}}

\* the hex digits tried after a sentence prefix: the fitting ones, the XOR of
\* its bytes off by one, and that XOR with another high digit
Checksums(prefix) ==
    LET body == SelectSeq(Tail(prefix), LAMBDA b : b # Star)
    IN  FittingChecksums(prefix) \cup
        UNION {{n, (n + 1) % 256, (n + 80) % 256} : n \in {Reduce(body, 0)}}

WithChecksums(prefix) == {prefix \o Hex2(v) : v \in Checksums(prefix)}

\* seven-field '!' sentences: every fragment count/index, sequence id, payload
\* and trailing-token shape, with right and wrong checksums
Framed ==
    UNION {WithChecksums(Join(<<<<Bang>> \o AIVDM, <<c>>, <<i>>, s,
                                <<Ord.A>>, p, t>>))
           : c \in {Ord.d1, Ord.d2}, i \in {Ord.d1, Ord.d2},
             s \in {<<>>, <<Ord.d3>>}, p \in Payloads, t \in TailShapes}

Heads == {<<Bang>> \o AIVDM, <<Ord.dollar>> \o AIVDM, <<>>, <<Bang, Star>>}

\* the sentences made of the first 1, 2, ... 8 fields of a sentence with one
\* field too many
Truncations(hd, c, right) ==
    LET prefix == Join(<<hd, <<c>>, <<Ord.d1>>, <<>>, <<Ord.A>>, <<Ord.H>>,
                         <<Ord.d0, Star>>>>)
        n == Reduce(SelectSeq(Tail(prefix), LAMBDA b : b # Star), 0)
        fs == <<hd, <<c>>, <<Ord.d1>>, <<>>, <<Ord.A>>, <<Ord.H>>,
                <<Ord.d0, Star>> \o Hex2(IF right THEN n ELSE (n + 1) % 256),
                <<Ord.d0>>>>
    IN  {Join(SubSeq(fs, 1, k)) : k \in 1..Len(fs)}

\* sentences of 1 to 8 fields behind every head, with numeric and non-numeric
\* fragment count, right and wrong checksums; the empty sentence is left out
Unframed ==
    UNION {Truncations(hd, c, right)
           : hd \in Heads, c \in {Ord.d1, Ord.A}, right \in BOOLEAN} \ {<<>>}

Sentences == Framed \cup Unframed

\* the sentences of the fragment group the caller assembles: fragments 1 and 2
\* of a two-part message, a fragment 2 whose trailing token holds a digit in
\* the place of '*', and a sentence that is not encapsulated
Fragments ==
    UNION {{prefix \o Hex2(v) : v \in FittingChecksums(prefix)}
           : prefix \in {Join(<<<<Bang>> \o AIVDM, <<Ord.d2>>, <<Ord.d1>>, <<Ord.d3>>,
                                 <<Ord.A>>, <<Ord.H, Ord.T>>, <<Ord.d0, Star>>>>),
                          Join(<<<<Bang>> \o AIVDM, <<Ord.d2>>, <<Ord.d2>>, <<Ord.d3>>,
                                 <<Ord.A>>, <<Ord.h>>, <<Ord.d0, Star>>>>),
                          Join(<<<<Bang>> \o AIVDM, <<Ord.d2>>, <<Ord.d2>>, <<Ord.d3>>,
                                 <<Ord.A>>, <<Ord.T, Ord.h>>, <<Ord.d0, Ord.d0>>>>)}}
    \cup {Join(<<<<Ord.dollar>> \o AIVDM, <<Ord.d2>>>>)}

-----------------------------------------------------------------------------
(* Calls *)

\* msg = NMEAMessage(raw): the caller keeps the object when one is returned
Construct(raw) ==
    LET r == NMEAMessage(raw)
    IN  /\ input' = raw
        /\ op' = "init"
        /\ outcome' = r.exc
        /\ heap' = IF r.exc = "none" THEN Append(heap, r.self) ELSE heap
        /\ ret' = IF r.exc = "none" THEN Len(heap) + 1 ELSE 0
        /\ UNCHANGED <<args, msg_type>>

\* the parser applied to the drawn sentence
Parse ==
    /\ op = "none"
    /\ Construct(input)

Init ==
    /\ input \in Sentences
    /\ heap = <<>>
    /\ op = "none"
    /\ args = <<>>
    /\ outcome = "none"
    /\ ret = 0
    /\ msg_type = None

Next == Parse

Spec == Init /\ [][Next]_vars

\* the attribute `name` of the objects `messages` refers to, concatenated in
\* order onto acc; ok = FALSE where += meets None (TypeError)
RECURSIVE Accumulate(_, _, _, _)
Accumulate(h, messages, name, acc) ==
    IF Len(messages) = 0 THEN [ok |-> TRUE, val |-> acc]
    ELSE LET v == h[Head(messages)][name]
         IN  IF v = NoneBytes /\ name # "raw" THEN [ok |-> FALSE, val |-> acc]
             ELSE Accumulate(h, Tail(messages), name, acc \o v)

\* assemble_from_iterable whose loop leaves out the first message
assemble_SkipsFirst(h, messages) ==
    LET raw == Accumulate(h, Tail(messages), "raw", <<>>)
        data == Accumulate(h, messages, "data", <<>>)
        bit_array == Accumulate(h, messages, "bit_array", <<>>)
    IN  IF ~data.ok \/ ~bit_array.ok
        THEN [exc |-> "TypeError", heap |-> h, ret |-> 0]
        ELSE IF Len(messages) = 0
        THEN [exc |-> "IndexError", heap |-> h, ret |-> 0]
        ELSE [exc |-> "none",
              heap |-> [h EXCEPT ![messages[1]].raw = raw.val,
                                 ![messages[1]].data = data.val,
                                 ![messages[1]].bit_array = bit_array.val],
              ret |-> messages[1]]

\* assemble_from_iterable that uses the last message as the accumulator
assemble_IntoLast(h, messages) ==
    LET raw == Accumulate(h, messages, "raw", <<>>)
        data == Accumulate(h, messages, "data", <<>>)
        bit_array == Accumulate(h, messages, "bit_array", <<>>)
        last == messages[Len(messages)]
    IN  IF ~data.ok \/ ~bit_array.ok
        THEN [exc |-> "TypeError", heap |-> h, ret |-> 0]
        ELSE IF Len(messages) = 0
        THEN [exc |-> "IndexError", heap |-> h, ret |-> 0]
        ELSE [exc |-> "none",
              heap |-> [h EXCEPT ![last].raw = raw.val,
                                 ![last].data = data.val,
                                 ![last].bit_array = bit_array.val],
              ret |-> last]

\* NMEAMessage.assemble_from_iterable(messages) on heap h: the exception it
\* raises ("none": it returns), the heap it leaves and the reference it returns
assemble_from_iterable(h, messages) ==
    LET raw == Accumulate(h, messages, "raw", <<>>)
        data == Accumulate(h, messages, "data", <<>>)
        bit_array == Accumulate(h, messages, "bit_array", <<>>)
    IN  IF ~data.ok \/ ~bit_array.ok
        THEN [exc |-> "TypeError", heap |-> h, ret |-> 0]
        ELSE IF Len(messages) = 0
        THEN [exc |-> "IndexError", heap |-> h, ret |-> 0]
        ELSE [exc |-> "none",
              heap |-> [h EXCEPT ![messages[1]].raw = raw.val,
                                 ![messages[1]].data = data.val,
                                 ![messages[1]].bit_array = bit_array.val],
              ret |-> messages[1]]

\* AISType(value): the message type of that id; None is no type id
AISType(value) ==
    IF value = None THEN [ok |-> FALSE, val |-> None]
    ELSE [ok |-> TRUE, val |-> value]

\* the `messages` lists a caller holding n objects can pass
MessageLists(n) == UNION {[1..k -> 1..n] : k \in 0..MaxFrames}

\* the sentences an assembled message may span
MaxSpan == MaxFrames

\* msg = NMEAMessage(raw) on one sentence of a fragment group; the caller
\* parses the group before it assembles
FromFragment ==
    /\ op \in {"none", "init"}
    /\ Len(heap) < MaxFrames
    /\ \E raw \in Fragments : Construct(raw)

\* msg = NMEAMessage.assemble_from_iterable(messages), on the parsed objects
\* and then again on the same list
Assemble ==
    /\ op \in {"init", "assemble"}
    /\ \E messages \in MessageLists(Len(heap)) :
        LET r == assemble_from_iterable(heap, messages)
        IN  /\ op = "assemble" => messages = args
            /\ \A k \in 1..Len(r.heap) :
                 Cardinality({i \in 1..Len(r.heap[k].raw) :
                                 r.heap[k].raw[i] = Comma}) <= 6 * MaxSpan
            /\ op' = "assemble"
            /\ args' = messages
            /\ outcome' = r.exc
            /\ heap' = r.heap
            /\ ret' = r.ret
            /\ UNCHANGED <<input, msg_type>>

\* AISMessage(heap[k]): self.nmea = nmea_message; self.msg_type = AISType(ais_id)
Decode ==
    /\ op \in {"init", "assemble"}
    /\ \E k \in 1..Len(heap) :
        LET t == AISType(heap[k].ais_id)
        IN  /\ op' = "decode"
            /\ outcome' = IF t.ok THEN "none" ELSE "ValueError"
            /\ ret' = k
            /\ msg_type' = t.val
            /\ UNCHANGED <<input, heap, args>>

InitAsm ==
    /\ input = <<>>
    /\ heap = <<>>
    /\ op = "none"
    /\ args = <<>>
    /\ outcome = "none"
    /\ ret = 0
    /\ msg_type = None

NextAsm == FromFragment \/ Assemble \/ Decode

SpecAsm == InitAsm /\ [][NextAsm]_vars

-----------------------------------------------------------------------------
(* What the claims speak of, stated without the parser's own operators *)

\* the last call was NMEAMessage(input) on a sentence whose first byte is b
Parsed == op = "init" /\ Len(input) > 0
Constructed == Parsed /\ outcome = "none"
Encapsulated == Parsed /\ input[1] = Bang

\* the number of comma-separated fields of a sentence
NumFields(raw) == 1 + Cardinality({i \in 1..Len(raw) : raw[i] = Comma})

\* the k-th comma-separated field of a sentence that has at least k fields
Field(raw, k) ==
    LET commas == {i \in 1..Len(raw) : raw[i] = Comma}
        before == {i \in commas : Cardinality({j \in commas : j < i}) = k - 2}
        after == {i \in commas : Cardinality({j \in commas : j < i}) = k - 1}
        lo == IF k = 1 THEN 1 ELSE (CHOOSE i \in before : TRUE) + 1
        hi == IF after = {} THEN Len(raw) ELSE (CHOOSE i \in after : TRUE) - 1
    IN  SubSeq(raw, lo, hi)

\* bit k of the XOR of the bytes raw[lo..hi]: the parity of the bytes with bit k set
ParityBit(raw, lo, hi, k) ==
    Cardinality({i \in lo..hi : (raw[i] \div (2 ^ k)) % 2 = 1}) % 2

\* the XOR of the bytes raw[lo..hi]
XorOf(raw, lo, hi) ==
    ParityBit(raw, lo, hi, 0) + 2 * ParityBit(raw, lo, hi, 1)
    + 4 * ParityBit(raw, lo, hi, 2) + 8 * ParityBit(raw, lo, hi, 3)
    + 16 * ParityBit(raw, lo, hi, 4) + 32 * ParityBit(raw, lo, hi, 5)
    + 64 * ParityBit(raw, lo, hi, 6) + 128 * ParityBit(raw, lo, hi, 7)

\* where the checksummed bytes of a sentence end: before its first '*', or at
\* its end when it has none
CoveredEnd(raw) ==
    LET stars == {i \in 1..Len(raw) : raw[i] = Star}
    IN  IF stars = {} THEN Len(raw)
        ELSE (CHOOSE i \in stars : \A j \in stars : i <= j) - 1

\* the XOR of every byte strictly between the leading sentinel and the '*'
XorBetween(raw) == XorOf(raw, 2, CoveredEnd(raw))

IsHex(b) == (b >= 48 /\ b <= 57) \/ (b >= 65 /\ b <= 70)
HexOf(b) == IF b <= 57 THEN b - 48 ELSE b - 55

C2_FlipRejected ==
    ( /\ Constructed
      /\ NumFields(input) = 7
      /\ Field(input, 1) = <<Bang>> \o AIVDM
      /\ Field(input, 2) = <<Ord.d1>>
      /\ Field(input, 3) = <<Ord.d1>>
      /\ Field(input, 4) = <<>>
      /\ Field(input, 5) = <<Ord.A>>
      /\ Len(Field(input, 7)) = 4
      /\ Field(input, 7)[1] = Ord.d0
      /\ Field(input, 7)[2] = Star
      /\ IsHex(Field(input, 7)[3]) /\ IsHex(Field(input, 7)[4]) )
    => \A p \in 15..(14 + Len(Field(input, 6))) :
         \A b \in Byte \ {input[p]} :
            NMEAMessage([input EXCEPT ![p] = b]).exc # "none"

\* C3 (as claimed): a sentence whose first byte is not '!' is returned as
\* Ignored, never an error: only raw is stored, every other field stays None.
C3_NonBangIgnored ==
    (Parsed /\ input[1] # Bang) =>
        /\ outcome = "none"
        /\ heap[ret] = [AllNone EXCEPT !.raw = input]

\* C4: a '!' sentence that does not split into exactly 7 fields fails with the
\* framing error, whatever its numeric fields and checksum are.
C4_FramingFirst ==
    (Encapsulated /\ NumFields(input) # 7) => outcome = "ValueError: 7 entries"

\* a '!' sentence of more than one field, not seven, with a non-numeric fragment count
C4_Witness_NonNumeric ==
    /\ Encapsulated
    /\ NumFields(input) \notin {1, 7}
    /\ ~PyInt(Field(input, 2), 10).ok
    /\ outcome = "ValueError: 7 entries"

\* the 7th field reads <pad>*<two hex digits>, pad made of digits, pad of any length
PadStarHex(f) ==
    /\ Len(f) >= 3
    /\ f[Len(f) - 2] = Star
    /\ IsHex(f[Len(f) - 1]) /\ IsHex(f[Len(f)])
    /\ \A i \in 1..(Len(f) - 3) : f[i] >= 48 /\ f[i] <= 57

\* the value of the two hex digits that end the field
LastHexPair(f) == 16 * HexOf(f[Len(f) - 1]) + HexOf(f[Len(f)])

\* C5 (as claimed): for every pad count, the checksum a frame stores is the
\* value of the two hex digits after the '*' of the 7th field.
C5_AnyPad ==
    (Constructed /\ input[1] = Bang /\ PadStarHex(Field(input, 7))) =>
        heap[ret].checksum = LastHexPair(Field(input, 7))

\* C5 (amended): for a pad count of exactly one character, the checksum a frame
\* stores is the value of the two hex digits after the '*' of the 7th field.
C5_OneCharPad ==
    ( /\ Constructed /\ input[1] = Bang
      /\ PadStarHex(Field(input, 7)) /\ Len(Field(input, 7)) = 4 ) =>
        heap[ret].checksum = LastHexPair(Field(input, 7))

\* a frame from a sentence with a one-character pad count whose checksum needs both digits
C5_Witness_TwoDigits ==
    /\ Constructed /\ input[1] = Bang
    /\ PadStarHex(Field(input, 7)) /\ Len(Field(input, 7)) = 4
    /\ heap[ret].checksum = LastHexPair(Field(input, 7))
    /\ HexOf(Field(input, 7)[3]) # 0

\* count, index and sequence id of a single-part frame
SingleShape(f) == f.count = 1 /\ f.index = 1 /\ f.seq_id \in {<<>>, NoneBytes}

\* C8: a frame is single-part exactly when count = 1, index = 1 and the
\* sequence id is empty, multi-part otherwise, and never both or neither.
C8_SingleOrMulti ==
    \A k \in 1..Len(heap) :
        /\ is_single(heap[k]) <=> SingleShape(heap[k])
        /\ is_multi(heap[k]) <=> ~SingleShape(heap[k])

\* a frame with index = count = 2 and no sequence id, reported multi-part
C8_Witness_TwoOfTwo ==
    \E k \in 1..Len(heap) :
        /\ heap[k].count = 2 /\ heap[k].index = 2 /\ heap[k].seq_id = <<>>
        /\ is_multi(heap[k]) /\ ~is_single(heap[k])

-----------------------------------------------------------------------------
(* Assembly and decoding *)

\* the last call was assemble_from_iterable(args) and it returned
Assembled == op = "assemble" /\ outcome = "none"

RECURSIVE CatAll(_)
\* the byte (or bit) strings of a list, end to end
CatAll(seqs) ==
    IF Len(seqs) = 0 THEN <<>>
    ELSE CatAll(SubSeq(seqs, 1, Len(seqs) - 1)) \o seqs[Len(seqs)]

\* C6 (as claimed): assembling leaves every input fragment as it was before
\* the call.
C6_InputsUnmodified ==
    [][op' = "assemble" => \A k \in 1..Len(heap) : heap'[k] = heap[k]]_vars

\* C7: for a non-empty list of parsed frames, assemble returns a message whose
\* raw bytes, payload and bit stream are those of the frames, as they were at the
\* call, end to end in the order given.
C7_OrderedConcat ==
    [][( /\ op' = "assemble"
         /\ Len(args') > 0
         /\ \A i \in 1..Len(args') : heap[args'[i]].data # NoneBytes )
       => /\ outcome' = "none"
          /\ heap'[ret'].raw = CatAll([i \in 1..Len(args') |-> heap[args'[i]].raw])
          /\ heap'[ret'].data = CatAll([i \in 1..Len(args') |-> heap[args'[i]].data])
          /\ heap'[ret'].bit_array =
                CatAll([i \in 1..Len(args') |-> heap[args'[i]].bit_array])]_vars

\* two different frames were assembled with the later-parsed one first
C7_Witness_OutOfOrder ==
    /\ Assembled
    /\ Len(args) = 2 /\ args[1] > args[2]
    /\ heap[args[1]].index = 2 /\ heap[args[2]].index = 1
    /\ Len(heap[ret].data) > Len(heap[args[2]].data)

\* the unsigned value of the first 6 bits of a bit stream
First6(bits) ==
    32 * bits[1] + 16 * bits[2] + 8 * bits[3] + 4 * bits[4] + 2 * bits[5] + bits[6]

\* C9: the type id AISMessage takes from a frame, parsed or assembled, is the
\* unsigned value of the first 6 bits of the frame's bit stream as it is now.
C9_TypeIdFromBits ==
    (op = "decode" /\ outcome = "none") =>
        /\ Len(heap[ret].bit_array) >= 6
        /\ msg_type = First6(heap[ret].bit_array)

\* a message assembled from two different frames was decoded
C9_Witness_DecodedAssembled ==
    /\ op = "decode" /\ outcome = "none"
    /\ Len(args) = 2 /\ args[1] # args[2] /\ ret = args[1]
    /\ Len(heap[ret].bit_array) > 12
    /\ msg_type = 24

\* C10 (as claimed): the frame assembly returns still satisfies is_valid.
C10_ValidAfterAssembly ==
    Assembled => is_valid(heap[ret])

\* C10 (amended): when the first frame of the list holds a '*' in its raw bytes
\* and satisfies is_valid, the frame assembly returns satisfies is_valid.
C10_ValidIfStarred ==
    [][( /\ op' = "assemble" /\ outcome' = "none"
         /\ \E i \in 1..Len(heap[args'[1]].raw) : heap[args'[1]].raw[i] = Star
         /\ is_valid(heap[args'[1]]) )
       => is_valid(heap'[ret'])]_vars

\* a valid frame with a '*' was assembled with another frame behind it, and the
\* result is valid
C10_Witness_StillValid ==
    /\ Assembled
    /\ Len(args) = 2 /\ args[1] # args[2]
    /\ Field(heap[ret].raw, 7)[2] = Star
    /\ NumFields(heap[ret].raw) > 7
    /\ is_valid(heap[ret])

====
